---- MODULE Spec2Model ----
(***************************************************************************)
(* Echo speed-of-sound measurement: the GUI application (scifairgui.py)    *)
(* and the standalone recording script (scifair.py).                       *)
(*                                                                         *)
(* Times are exact rationals <<num, den>> (den > 0, lowest terms); the     *)
(* source computes them in IEEE doubles.  On every setting enumerated here *)
(* int((ms / 1000.0) * SAMPLE_RATE) equals (ms * SAMPLE_RATE) \div 1000.   *)
(* Waveforms are functions over 0 .. n-1, as numpy arrays are 0-indexed.   *)
(***************************************************************************)
EXTENDS Integers, Sequences, FiniteSets, TLC

VARIABLES
    program,      \* which entry point this run started
    settings,     \* the module globals of scifairgui.py (section 1 of the file)
    HAVE_BUZZER,  \* scifairgui.py: set once by the import-time try/except
    buzzer,       \* scifairgui.py: the GPIO output line, "on" or "off"
    button,       \* EchoApp.button state: "normal" or "disabled"
    status,       \* EchoApp.status label text
    result,       \* EchoApp.result label text
    plotted,      \* what update_display last drew: "none" or [wave, echo_ms]
    threads,      \* the worker threads started so far, each a record
    stream,       \* sounddevice's current recording: [st, owner]
    tkq,          \* Tk's queue of pending root.after(0, ...) callbacks
    outcomes,     \* per thread: what reached the presentation boundary
    stderr,       \* callback exceptions Tk reported (report_callback_exception)
    spc,          \* scifair.py main(): program counter
    slog,         \* scifair.py main(): the measurement steps taken so far
    sbuzzer,      \* scifair.py main(): the Buzzer(21) line
    sstream,      \* scifair.py main(): the sd.rec recording
    lpc,          \* direct call of the pure functions: position
    in_wave,      \* direct call: the waveform handed to find_echo_time_ms
    in_t,         \* direct call: the echo time handed to compute_speed_m_per_s
    out_echo,     \* direct call: what find_echo_time_ms returned
    out_speed     \* direct call: what compute_speed_m_per_s returned

vars == <<program, settings, HAVE_BUZZER, buzzer, button, status, result, plotted,
          threads, stream, tkq, outcomes, stderr, spc, slog, sbuzzer, sstream,
          lpc, in_wave, in_t, out_echo, out_speed>>

guiVars == <<HAVE_BUZZER, buzzer, button, status, result, plotted, threads,
             stream, tkq, outcomes, stderr>>
scriptVars == <<spc, slog, sbuzzer, sstream>>
callVars == <<lpc, in_wave, in_t, out_echo, out_speed>>

----------------------------------------------------------------------------
(* Program constants: the shipped settings.                                *)

SAMPLE_RATE == 48000
RECORD_MS == 60
IGNORE_FIRST_MS == 2
ECHO_SEARCH_START_MS == 6
ECHO_SEARCH_END_MS == 55
TUBE_DISTANCE_M == 3

ShippedSettings ==
    [SAMPLE_RATE |-> SAMPLE_RATE, RECORD_MS |-> RECORD_MS,
     IGNORE_FIRST_MS |-> IGNORE_FIRST_MS,
     ECHO_SEARCH_START_MS |-> ECHO_SEARCH_START_MS,
     ECHO_SEARCH_END_MS |-> ECHO_SEARCH_END_MS,
     TUBE_DISTANCE_M |-> TUBE_DISTANCE_M]

----------------------------------------------------------------------------
(* Bounds of the model.                                                    *)

MaxRecordMs == 4        \* edited settings record for 1 .. MaxRecordMs ms
MaxMeasurements == 2    \* button presses that start a measurement

SampleRates == {1000, 1500}        \* sample rates of the edited settings
Distances == {1, 3}                \* tube lengths of the edited settings
Amps == {-2, 0, 1}                 \* sample values of the enumerated waveforms
ImpulseAt == {0, 96, 287, 288, 480, 2639, 2640, 2879}  \* impulse positions tried
EchoTimes == {<<-1, 1>>, <<0, 1>>, <<1, 2>>, <<10, 1>>}  \* echo times tried

----------------------------------------------------------------------------
(* Exact arithmetic.                                                       *)

Abs(x) == IF x < 0 THEN -x ELSE x
Min2(a, b) == IF a < b THEN a ELSE b
Max2(a, b) == IF a > b THEN a ELSE b

RECURSIVE Gcd(_, _)
Gcd(a, b) == IF b = 0 THEN a ELSE Gcd(b, a % b)

\* The rational n/d in lowest terms with a positive denominator (d # 0).
Rat(n, d) ==
    LET g == Gcd(Abs(n), Abs(d))
        s == IF d < 0 THEN -1 ELSE 1
    IN  <<(s * n) \div g, (s * d) \div g>>

RatLe(a, b) == a[1] * b[2] <= b[1] * a[2]
RatLt(a, b) == a[1] * b[2] < b[1] * a[2]
RatMul(a, b) == Rat(a[1] * b[1], a[2] * b[2])
Zero == <<0, 1>>

\* Python's a / b on floats: ZeroDivisionError when b is zero.
py_div(a, b) ==
    IF b[1] = 0 THEN [exc |-> "ZeroDivisionError", val |-> Zero]
    ELSE [exc |-> "none", val |-> Rat(a[1] * b[2], a[2] * b[1])]

----------------------------------------------------------------------------
(* scifairgui.py section 3: audio and echo finding.                        *)

\* int(seconds * SAMPLE_RATE) with seconds = RECORD_MS / 1000.0
num_frames == (settings.RECORD_MS * settings.SAMPLE_RATE) \div 1000

\* def ms_to_index(ms): return int((ms / 1000.0) * SAMPLE_RATE)
ms_to_index(ms) == (ms * settings.SAMPLE_RATE) \div 1000

\* max(0, min(i, len(loud)))
clamp(i, n) == Max2(0, Min2(i, n))

\* The indices a[lo:hi] addresses on an array of n elements (Python slice
\* rules: a negative bound counts from the end, every bound is cut to 0..n).
slice_bound(k, n) == IF k < 0 THEN Max2(0, n + k) ELSE Min2(k, n)
py_slice(lo, hi, n) == {i \in 0 .. n - 1 : slice_bound(lo, n) <= i /\ i < slice_bound(hi, n)}

\* (variant: the line loud[:i1] = 0.0 left out)
zero_after_only(loud, i1, i2) ==
    LET n == Cardinality(DOMAIN loud)
        tail == py_slice(i2, n, n)
    IN  [i \in DOMAIN loud |-> IF i \in tail THEN 0 ELSE loud[i]]
\* loud[:i1] = 0.0 ; loud[i2:] = 0.0
zero_outside(loud, i1, i2) ==
    LET n == Cardinality(DOMAIN loud)
        head == py_slice(0, i1, n)
        tail == py_slice(i2, n, n)
        a == [i \in DOMAIN loud |-> IF i \in head THEN 0 ELSE loud[i]]
    IN  [i \in DOMAIN a |-> IF i \in tail THEN 0 ELSE a[i]]

\* (variant: the last occurrence of the greatest value)
argmax_last(a, m) ==
    LET S == {i \in DOMAIN a : a[i] = m}
    IN  CHOOSE i \in S : \A j \in S : j <= i
\* np.argmax of a non-empty array whose greatest value is m: first occurrence.
argmax_at(a, m) ==
    LET S == {i \in DOMAIN a : a[i] = m}
    IN  CHOOSE i \in S : \A j \in S : i <= j

\* int(np.argmax(loud)): ValueError on an empty array.
argmax(a) ==
    IF DOMAIN a = {} THEN [exc |-> "ValueError", idx |-> 0]
    ELSE LET V == {a[i] : i \in DOMAIN a}
             m == CHOOSE v \in V : \A w \in V : w <= v
         IN  [exc |-> "none", idx |-> argmax_at(a, m)]

\* (variant: no zeroing at all)
peak_unmasked(wave) == argmax([i \in DOMAIN wave |-> Abs(wave[i])])
\* (variant: the search runs on loud[i1:i2] and the offset is added back)
peak_in_slice(wave) ==
    LET n == Cardinality(DOMAIN wave)
        i1 == clamp(ms_to_index(settings.ECHO_SEARCH_START_MS), n)
        i2 == clamp(ms_to_index(settings.ECHO_SEARCH_END_MS), n)
        w == [i \in 0 .. (i2 - i1 - 1) |-> Abs(wave[i1 + i])]
        r == argmax(w)
    IN  [exc |-> r.exc, idx |-> i1 + r.idx]
\* find_echo_time_ms up to peak_index = int(np.argmax(loud))
peak_index(wave) ==
    LET loud == [i \in DOMAIN wave |-> Abs(wave[i])]
        n == Cardinality(DOMAIN loud)
        i0 == clamp(ms_to_index(settings.IGNORE_FIRST_MS), n)
        i1 == clamp(ms_to_index(settings.ECHO_SEARCH_START_MS), n)
        i2 == clamp(ms_to_index(settings.ECHO_SEARCH_END_MS), n)
    IN  argmax(zero_outside(loud, i1, i2))

\* peak_ms = (peak_index / SAMPLE_RATE) * 1000.0
index_to_ms(i) == Rat(i * 1000, settings.SAMPLE_RATE)

find_echo_time_ms(wave) ==
    LET p == peak_index(wave)
    IN  [exc |-> p.exc, idx |-> p.idx, ms |-> index_to_ms(p.idx)]

\* (variant: the guard is t < 0)
speed_strict_guard(echo_time_ms) ==
    LET t == Rat(echo_time_ms[1], echo_time_ms[2] * 1000)
    IN  IF RatLt(t, Zero) THEN [exc |-> "none", val |-> Zero]
        ELSE py_div(Rat(2 * settings.TUBE_DISTANCE_M, 1), t)
\* compute_speed_m_per_s
compute_speed_m_per_s(echo_time_ms) ==
    LET t == Rat(echo_time_ms[1], echo_time_ms[2] * 1000)
    IN  IF RatLe(t, Zero) THEN [exc |-> "none", val |-> Zero]
        ELSE py_div(Rat(2 * settings.TUBE_DISTANCE_M, 1), t)

\* f"{x:.Nf}": x rounded to `places` decimals, as the count of 10^-places units.
fmt(x, places) ==
    LET scale == IF places = 1 THEN 10 ELSE 100
    IN  (2 * x[1] * scale + x[2]) \div (2 * x[2])

----------------------------------------------------------------------------
(* The inputs enumerated.                                                  *)

\* Settings an operator may edit in: the window invariant of the data model.
EditedSettings ==
    {s \in [SAMPLE_RATE : SampleRates, RECORD_MS : 1 .. MaxRecordMs,
            IGNORE_FIRST_MS : 0 .. MaxRecordMs,
            ECHO_SEARCH_START_MS : 0 .. MaxRecordMs,
            ECHO_SEARCH_END_MS : 0 .. MaxRecordMs, TUBE_DISTANCE_M : Distances] :
        /\ s.IGNORE_FIRST_MS <= s.ECHO_SEARCH_START_MS
        /\ s.ECHO_SEARCH_START_MS < s.ECHO_SEARCH_END_MS
        /\ s.ECHO_SEARCH_END_MS <= s.RECORD_MS}

Impulse(n, k, a) == [i \in 0 .. n - 1 |-> IF i = k THEN a ELSE 0]
TwoImpulses(n, k1, a1, k2, a2) ==
    [i \in 0 .. n - 1 |-> IF i = k1 THEN a1 ELSE IF i = k2 THEN a2 ELSE 0]

\* Waveforms of the recorded length: every one when it is short, else silence,
\* single impulses and impulse pairs.
InputWaves ==
    IF settings = ShippedSettings
    THEN {Impulse(num_frames, k, a) : k \in ImpulseAt, a \in Amps}
         \cup {TwoImpulses(num_frames, k, 1, 480, a) : k \in ImpulseAt \ {480}, a \in {-2, 1}}
    ELSE [0 .. num_frames - 1 -> Amps]

\* What the microphone delivers to the application.
GuiWaves == {Impulse(num_frames, 480, 0), Impulse(num_frames, 480, 1)}

----------------------------------------------------------------------------
(* Direct calls of the two pure functions.                                 *)

NoEcho == [exc |-> "none", idx |-> 0, ms |-> Zero]
NoSpeed == [exc |-> "none", val |-> Zero]

Locate ==
    /\ lpc = "start"
    /\ out_echo' = find_echo_time_ms(in_wave)
    /\ lpc' = IF out_echo'.exc = "none" THEN "located" ELSE "raised"
    /\ UNCHANGED <<program, settings, guiVars, scriptVars, in_wave, in_t, out_speed>>

\* The speed of the echo just found (as do_measurement calls it) or of a time
\* chosen freely.
Estimate ==
    /\ lpc = "located"
    /\ \E t \in EchoTimes \cup {out_echo.ms} :
          /\ in_t' = t
          /\ out_speed' = compute_speed_m_per_s(t)
    /\ lpc' = "estimated"
    /\ UNCHANGED <<program, settings, guiVars, scriptVars, in_wave, out_echo>>

----------------------------------------------------------------------------
(* scifairgui.py section 2: the buzzer.                                    *)

\* A worker thread as Click creates it: do_measurement's frame.
\*   steps: the measurement steps it has taken, in order
\*   e_bound: whether the except clause's name e is still bound
NewThread ==
    [pc |-> "rec", wave |-> <<>>, echo_ms |-> Zero, speed |-> Zero,
     e |-> "", e_bound |-> FALSE, steps |-> <<>>]

Raise(t, cause) ==
    threads' = [threads EXCEPT ![t].pc = "except", ![t].e = cause, ![t].e_bound = TRUE]

\* (variant: the HAVE_BUZZER check left out)
beep_unguarded(t) ==
    /\ threads[t].pc = "beep"
    /\ IF HAVE_BUZZER
       THEN /\ buzzer' = "on"
            /\ threads' = [threads EXCEPT ![t].pc = "beep_hold",
                                          ![t].steps = Append(@, "emit")]
       ELSE /\ Raise(t, "AttributeError")    \* buzzer is None
            /\ UNCHANGED buzzer
    /\ UNCHANGED <<program, settings, HAVE_BUZZER, button, status, result, plotted,
                   stream, tkq, outcomes, stderr, scriptVars, callVars>>
\* beep(), up to and including buzzer.on()
beep(t) ==
    /\ threads[t].pc = "beep"
    /\ IF ~HAVE_BUZZER
       THEN /\ threads' = [threads EXCEPT ![t].pc = "wait",
                                          ![t].steps = Append(@, "emit")]
            /\ UNCHANGED buzzer
       ELSE \/ /\ buzzer' = "on"
               /\ threads' = [threads EXCEPT ![t].pc = "beep_hold",
                                             ![t].steps = Append(@, "emit")]
            \/ /\ Raise(t, "GPIOError")      \* buzzer.on() fails
               /\ UNCHANGED buzzer
    /\ UNCHANGED <<program, settings, HAVE_BUZZER, button, status, result, plotted,
                   stream, tkq, outcomes, stderr, scriptVars, callVars>>

\* beep(): time.sleep(BUZZER_ON_MS / 1000.0); buzzer.off()
beep_off(t) ==
    /\ threads[t].pc = "beep_hold"
    /\ buzzer' = "off"
    /\ threads' = [threads EXCEPT ![t].pc = "wait"]
    /\ UNCHANGED <<program, settings, HAVE_BUZZER, button, status, result, plotted,
                   stream, tkq, outcomes, stderr, scriptVars, callVars>>

----------------------------------------------------------------------------
(* scifairgui.py section 4: the GUI.                                       *)

\* (variant: the button is left enabled)
start_measurement_thread_keeps_button ==
    /\ program = "scifairgui"
    /\ button = "normal"
    /\ Len(threads) < MaxMeasurements
    /\ status' = "Measuring..."
    /\ result' = <<>>
    /\ threads' = Append(threads, NewThread)
    /\ outcomes' = Append(outcomes, <<>>)
    /\ UNCHANGED <<program, settings, HAVE_BUZZER, buzzer, button, plotted, stream,
                   tkq, stderr, scriptVars, callVars>>
\* start_measurement_thread, the command of the button: Tk runs it on a press
\* while the button is enabled.
start_measurement_thread ==
    /\ program = "scifairgui"
    /\ button = "normal"
    /\ Len(threads) < MaxMeasurements
    /\ button' = "disabled"
    /\ status' = "Measuring..."
    /\ result' = <<>>
    /\ threads' = Append(threads, NewThread)
    /\ outcomes' = Append(outcomes, <<>>)
    /\ UNCHANGED <<program, settings, HAVE_BUZZER, buzzer, plotted, stream, tkq,
                   stderr, scriptVars, callVars>>

\* A press while the button is disabled: Tk does not call the command.
press_disabled ==
    /\ program = "scifairgui"
    /\ button = "disabled"
    /\ UNCHANGED vars

\* record_with_beep: audio = sd.rec(...), which replaces any earlier recording
rec_start(t) ==
    /\ threads[t].pc = "rec"
    /\ \/ /\ stream' = [st |-> "recording", owner |-> t, data |-> <<>>]
          /\ threads' = [threads EXCEPT ![t].pc = "sleep",
                                        ![t].steps = Append(@, "record_start")]
       \/ /\ Raise(t, "PortAudioError")
          /\ UNCHANGED stream
    /\ UNCHANGED <<program, settings, HAVE_BUZZER, buzzer, button, status, result,
                   plotted, tkq, outcomes, stderr, scriptVars, callVars>>

\* record_with_beep: time.sleep(0.005)
settle(t) ==
    /\ threads[t].pc = "sleep"
    /\ threads' = [threads EXCEPT ![t].pc = "beep"]
    /\ UNCHANGED <<program, settings, HAVE_BUZZER, buzzer, button, status, result,
                   plotted, stream, tkq, outcomes, stderr, scriptVars, callVars>>

\* The audio backend fills the buffer while the worker goes on.
capture ==
    /\ stream.st = "recording"
    /\ \E w \in GuiWaves : stream' = [stream EXCEPT !.st = "complete", !.data = w]
    /\ UNCHANGED <<program, settings, HAVE_BUZZER, buzzer, button, status, result,
                   plotted, threads, tkq, outcomes, stderr, scriptVars, callVars>>

\* record_with_beep: sd.wait(); return audio[:, 0]
wait(t) ==
    /\ threads[t].pc = "wait"
    /\ \/ /\ stream.st = "complete"
          /\ threads' = [threads EXCEPT ![t].pc = "find", ![t].wave = stream.data,
                                        ![t].steps = Append(@, "wait")]
       \/ /\ stream.st = "recording"
          /\ Raise(t, "PortAudioError")
    /\ UNCHANGED <<program, settings, HAVE_BUZZER, buzzer, button, status, result,
                   plotted, stream, tkq, outcomes, stderr, scriptVars, callVars>>

\* do_measurement: echo_ms = find_echo_time_ms(wave)
find(t) ==
    /\ threads[t].pc = "find"
    /\ LET r == find_echo_time_ms(threads[t].wave)
       IN  IF r.exc = "none"
           THEN threads' = [threads EXCEPT ![t].pc = "speed", ![t].echo_ms = r.ms,
                                           ![t].steps = Append(@, "locate")]
           ELSE Raise(t, r.exc)
    /\ UNCHANGED <<program, settings, HAVE_BUZZER, buzzer, button, status, result,
                   plotted, stream, tkq, outcomes, stderr, scriptVars, callVars>>

\* do_measurement: speed = compute_speed_m_per_s(echo_ms)
speed(t) ==
    /\ threads[t].pc = "speed"
    /\ LET r == compute_speed_m_per_s(threads[t].echo_ms)
       IN  IF r.exc = "none"
           THEN threads' = [threads EXCEPT ![t].pc = "post", ![t].speed = r.val,
                                           ![t].steps = Append(@, "estimate")]
           ELSE Raise(t, r.exc)
    /\ UNCHANGED <<program, settings, HAVE_BUZZER, buzzer, button, status, result,
                   plotted, stream, tkq, outcomes, stderr, scriptVars, callVars>>

\* do_measurement: self.root.after(0, lambda: self.update_display(...))
post_result(t) ==
    /\ threads[t].pc = "post"
    /\ tkq' = Append(tkq, [kind |-> "update_display", t |-> t])
    /\ threads' = [threads EXCEPT ![t].pc = "done"]
    /\ UNCHANGED <<program, settings, HAVE_BUZZER, buzzer, button, status, result,
                   plotted, stream, outcomes, stderr, scriptVars, callVars>>

\* do_measurement, except clause: self.root.after(0, lambda: self.show_error(e))
post_error(t) ==
    /\ threads[t].pc = "except"
    /\ tkq' = Append(tkq, [kind |-> "show_error", t |-> t])
    /\ threads' = [threads EXCEPT ![t].pc = "unbind"]
    /\ UNCHANGED <<program, settings, HAVE_BUZZER, buzzer, button, status, result,
                   plotted, stream, outcomes, stderr, scriptVars, callVars>>

\* do_measurement, leaving the except clause: Python unbinds e
leave_except(t) ==
    /\ threads[t].pc = "unbind"
    /\ threads' = [threads EXCEPT ![t].pc = "done", ![t].e_bound = FALSE]
    /\ UNCHANGED <<program, settings, HAVE_BUZZER, buzzer, button, status, result,
                   plotted, stream, tkq, outcomes, stderr, scriptVars, callVars>>

\* The main loop runs lambda: self.update_display(wave, echo_ms, speed)
update_display ==
    /\ tkq # <<>>
    /\ Head(tkq).kind = "update_display"
    /\ LET t == Head(tkq).t
       IN  /\ status' = "Done!"
           /\ result' = <<"Echo time", fmt(threads[t].echo_ms, 2),
                          "Speed", fmt(threads[t].speed, 1)>>
           /\ plotted' = [wave |-> threads[t].wave, echo_ms |-> threads[t].echo_ms]
           /\ outcomes' = [outcomes EXCEPT ![t] = Append(@, "result")]
    /\ button' = "normal"
    /\ tkq' = Tail(tkq)
    /\ UNCHANGED <<program, settings, HAVE_BUZZER, buzzer, threads, stream, stderr,
                   scriptVars, callVars>>

\* The main loop runs lambda: self.show_error(e).  The lambda reads e when it
\* runs: bound, show_error(e) runs; unbound, the lambda raises NameError, which
\* Tk reports on stderr.
show_error ==
    /\ tkq # <<>>
    /\ Head(tkq).kind = "show_error"
    /\ LET t == Head(tkq).t
       IN  IF threads[t].e_bound
           THEN /\ status' = "Error!"
                /\ result' = <<threads[t].e>>
                /\ button' = "normal"
                /\ outcomes' = [outcomes EXCEPT ![t] = Append(@, "failure")]
                /\ UNCHANGED stderr
           ELSE /\ stderr' = Append(stderr, "NameError")
                /\ UNCHANGED <<status, result, button, outcomes>>
    /\ tkq' = Tail(tkq)
    /\ UNCHANGED <<program, settings, HAVE_BUZZER, buzzer, plotted, threads, stream,
                   scriptVars, callVars>>

----------------------------------------------------------------------------
(* scifair.py: main().                                                     *)

\* audio = sd.rec(...)
script_rec ==
    /\ program = "scifair"
    /\ spc = "rec"
    /\ sstream' = "recording"
    /\ slog' = Append(slog, "record_start")
    /\ spc' = "buzzer"
    /\ UNCHANGED <<program, settings, guiVars, sbuzzer, callVars>>

\* buzzer = Buzzer(21, active_high=True, initial_value=False)
script_buzzer ==
    /\ spc = "buzzer"
    /\ \/ sbuzzer' = "off" /\ spc' = "wait"
       \/ sbuzzer' = "none" /\ spc' = "crashed"     \* no GPIO: uncaught
    /\ UNCHANGED <<program, settings, guiVars, slog, sstream, callVars>>

\* The audio backend fills the buffer.
script_capture ==
    /\ sstream = "recording"
    /\ sstream' = "complete"
    /\ UNCHANGED <<program, settings, guiVars, spc, slog, sbuzzer, callVars>>

\* sd.wait()
script_wait ==
    /\ spc = "wait"
    /\ sstream = "complete"
    /\ slog' = Append(slog, "wait")
    /\ spc' = "on"
    /\ UNCHANGED <<program, settings, guiVars, sbuzzer, sstream, callVars>>

\* buzzer.on()
script_on ==
    /\ spc = "on"
    /\ sbuzzer' = "on"
    /\ slog' = Append(slog, "emit")
    /\ spc' = "off"
    /\ UNCHANGED <<program, settings, guiVars, sstream, callVars>>

\* time.sleep(.05); buzzer.off()
script_off ==
    /\ spc = "off"
    /\ sbuzzer' = "off"
    /\ spc' = "close"
    /\ UNCHANGED <<program, settings, guiVars, slog, sstream, callVars>>

\* buzzer.close()
script_close ==
    /\ spc = "close"
    /\ sbuzzer' = "closed"
    /\ spc' = "plot"
    /\ UNCHANGED <<program, settings, guiVars, slog, sstream, callVars>>

\* x = audio.flatten() ... plt.show(); return 0
script_plot ==
    /\ spc = "plot"
    /\ spc' = "exit"
    /\ UNCHANGED <<program, settings, guiVars, slog, sbuzzer, sstream, callVars>>

----------------------------------------------------------------------------
(* Specifications.                                                         *)

IdleGui ==
    /\ buzzer = "off"
    /\ button = "normal"
    /\ status = "Ready."
    /\ result = <<>>
    /\ plotted = "none"
    /\ threads = <<>>
    /\ stream = [st |-> "idle", owner |-> 0, data |-> <<>>]
    /\ tkq = <<>>
    /\ outcomes = <<>>
    /\ stderr = <<>>

IdleScript ==
    /\ spc = "rec"
    /\ slog = <<>>
    /\ sbuzzer = "none"
    /\ sstream = "idle"

IdleCall ==
    /\ in_wave = <<>>
    /\ in_t = Zero
    /\ out_echo = NoEcho
    /\ out_speed = NoSpeed

\* One of the two programs has been started.
Init ==
    /\ program \in {"scifairgui", "scifair"}
    /\ settings = ShippedSettings
    /\ HAVE_BUZZER \in BOOLEAN
    /\ IdleGui
    /\ IdleScript
    /\ lpc = "idle"
    /\ IdleCall

Next ==
    \/ start_measurement_thread
    \/ press_disabled
    \/ \E t \in DOMAIN threads : rec_start(t)
    \/ \E t \in DOMAIN threads : settle(t)
    \/ \E t \in DOMAIN threads : beep(t)
    \/ \E t \in DOMAIN threads : beep_off(t)
    \/ capture
    \/ \E t \in DOMAIN threads : wait(t)
    \/ \E t \in DOMAIN threads : find(t)
    \/ \E t \in DOMAIN threads : speed(t)
    \/ \E t \in DOMAIN threads : post_result(t)
    \/ \E t \in DOMAIN threads : post_error(t)
    \/ \E t \in DOMAIN threads : leave_except(t)
    \/ update_display
    \/ show_error
    \/ script_rec
    \/ script_buzzer
    \/ script_capture
    \/ script_wait
    \/ script_on
    \/ script_off
    \/ script_close
    \/ script_plot

Spec == Init /\ [][Next]_vars

\* find_echo_time_ms and compute_speed_m_per_s called on enumerated inputs.
CallInit ==
    /\ program = "call"
    /\ \/ settings \in EditedSettings
       \/ settings = ShippedSettings
    /\ HAVE_BUZZER = FALSE
    /\ IdleGui
    /\ IdleScript
    /\ lpc = "start"
    /\ in_wave \in InputWaves
    /\ in_t = Zero
    /\ out_echo = NoEcho
    /\ out_speed = NoSpeed

CallNext == Locate \/ Estimate

CallSpec == CallInit /\ [][CallNext]_vars

----------------------------------------------------------------------------
(* Properties.                                                             *)

\* A measurement is in flight from its start until its completion is delivered.
InFlight(t) == outcomes[t] = <<>>
Running(t) == threads[t].pc # "done"
\* The worker has not yet handed its completion to the main loop.
Measuring(t) == threads[t].pc \notin {"unbind", "done"}
Queued(t) == \E i \in DOMAIN tkq : tkq[i].t = t
\* The worker has ended and its deferred callback has run.
Finished(t) == ~Running(t) /\ ~Queued(t)
Failed(t) == threads[t].e # ""

C2_ReturnsToReady ==
    (\A t \in DOMAIN threads : Finished(t)) => button = "normal"

Order == <<"record_start", "emit", "wait", "locate", "estimate">>
Rank(step) == CHOOSE i \in DOMAIN Order : Order[i] = step
InOrder(log) ==
    \A i, j \in DOMAIN log : i < j => Rank(log[i]) < Rank(log[j])

\* C3: in every measurement path (the GUI worker and the script's main) the
\* steps taken are in the order record-start, emit, wait for the recording,
\* locate the echo, estimate the speed.
C3_StepsInOrder ==
    /\ \A t \in DOMAIN threads : InOrder(threads[t].steps)
    /\ InOrder(slog)

\* C4: a finished measurement has delivered exactly one outcome: a failure
\* notification with the cause's message if the recorder or the emitter
\* raised, one result otherwise; never both and never neither.
C4_ExactlyOneOutcome ==
    \A t \in DOMAIN threads :
        /\ Len(outcomes[t]) <= 1
        /\ Finished(t) =>
              /\ Len(outcomes[t]) = 1
              /\ Failed(t) <=> outcomes[t] = <<"failure">>

\* Window bounds as sample indices of in_wave.
Frames == Cardinality(DOMAIN in_wave)
WinStart == clamp(ms_to_index(settings.ECHO_SEARCH_START_MS), Frames)
WinEnd == clamp(ms_to_index(settings.ECHO_SEARCH_END_MS), Frames)
Window == {i \in DOMAIN in_wave : WinStart <= i /\ i < WinEnd}
SilentWindow == \A i \in Window : in_wave[i] = 0
Silence == \A i \in DOMAIN in_wave : in_wave[i] = 0
Called == lpc # "start" /\ lpc # "idle"
Returned == lpc = "located" \/ lpc = "estimated"
Ms(n) == <<n, 1>>

OutOfWindowImpulse(k) ==
    /\ k \in DOMAIN in_wave
    /\ in_wave[k] # 0
    /\ k < WinStart \/ k >= WinEnd

\* C7 as claimed: the timestamp of an impulse outside the window is never
\* returned, wherever the impulse is, index 0 included.
C7_NeverOutOfWindowImpulse ==
    Returned =>
        \A k \in DOMAIN in_wave :
            OutOfWindowImpulse(k) => out_echo.ms # index_to_ms(k)

\* C7 as amended: the peak returned is a nonzero sample in the window or,
\* when the window holds none, index 0 (the fallback); so an impulse outside
\* the window is reported only when it is at index 0 and the window is silent.
C7_OutOfWindowImpulseOnlyAsFallback ==
    Returned =>
        LET silent == SilentWindow
        IN  /\ \/ out_echo.idx \in Window /\ in_wave[out_echo.idx] # 0
               \/ out_echo.idx = 0 /\ silent
            /\ \A k \in DOMAIN in_wave :
                  (OutOfWindowImpulse(k) /\ out_echo.ms = index_to_ms(k)) =>
                      (k = 0 /\ silent)

\* An impulse inside the lead-in (not at index 0) is the loudest sample and
\* another time is returned.
C7_Witness ==
    /\ Returned
    /\ \E k \in DOMAIN in_wave :
          /\ OutOfWindowImpulse(k)
          /\ 0 < k
          /\ k < WinStart
          /\ \A j \in DOMAIN in_wave : Abs(in_wave[j]) <= Abs(in_wave[k])
          /\ out_echo.ms # index_to_ms(k)

\* C8: with a nonzero sample in the window, find_echo_time_ms returns
\* peak_index / sample_rate * 1000 for the lowest window index whose absolute
\* amplitude is the greatest of the window; the unit impulse at index 480 of
\* 2880 samples at 48000 Hz gives 10 ms, and 600 m/s at distance 3.
C8_FirstWindowMaximum ==
    /\ (Called /\ ~SilentWindow) =>
          /\ Returned
          /\ out_echo.idx \in Window
          /\ \A j \in Window : Abs(in_wave[j]) <= Abs(in_wave[out_echo.idx])
          /\ \A j \in Window :
                j < out_echo.idx => Abs(in_wave[j]) < Abs(in_wave[out_echo.idx])
          /\ out_echo.ms[1] * settings.SAMPLE_RATE = out_echo.idx * 1000 * out_echo.ms[2]
    /\ (Called /\ settings = ShippedSettings /\ in_wave = Impulse(2880, 480, 1)) =>
          /\ out_echo.ms = Ms(10)
          /\ (lpc = "estimated" /\ in_t = out_echo.ms) => out_speed.val = Ms(600)

\* The example of the claim, through both functions.
C8_Witness ==
    /\ lpc = "estimated"
    /\ settings = ShippedSettings
    /\ in_wave = Impulse(2880, 480, 1)
    /\ in_t = Ms(10)
    /\ out_speed.val = Ms(600)

\* C9: compute_speed_m_per_s raises nothing; it returns 0 for every echo time
\* <= 0 and (2 * distance) / (echo_time_ms / 1000) for every echo time > 0.
C9_SpeedTotal ==
    lpc = "estimated" =>
        /\ out_speed.exc = "none"
        /\ RatLe(in_t, Zero) => out_speed.val = Zero
        /\ RatLt(Zero, in_t) =>
              out_speed.val[1] * in_t[1]
                  = 2000 * settings.TUBE_DISTANCE_M * out_speed.val[2] * in_t[2]

\* The echo time -1 gave the sentinel.
C9_Witness ==
    /\ lpc = "estimated"
    /\ in_t = Ms(-1)
    /\ out_speed = [exc |-> "none", val |-> Zero]

\* C10: without a buzzer, beep() never drives the output and never raises,
\* and a measurement whose recording succeeds takes every step, delivers one
\* result and no failure, and leaves the button enabled.
C10_DegradedModeCompletes ==
    ~HAVE_BUZZER =>
        /\ buzzer = "off"
        /\ \A t \in DOMAIN threads :
              /\ threads[t].e \in {"", "PortAudioError"}
              /\ (Finished(t) /\ ~Failed(t)) =>
                    /\ threads[t].steps = Order
                    /\ outcomes[t] = <<"result">>
              /\ (outcomes[t] = <<"result">> /\ t = Len(threads)) => button = "normal"

\* A measurement without a buzzer has delivered its result.
C10_Witness ==
    /\ program = "scifairgui"
    /\ ~HAVE_BUZZER
    /\ \E t \in DOMAIN threads :
          /\ outcomes[t] = <<"result">>
          /\ threads[t].steps = Order
          /\ status = "Done!"
          /\ button = "normal"

====
